---- MODULE Spec2Model ----
(***************************************************************************)
(* Model of the CollabUp REST backend (server.js): the role-based path     *)
(* authorization engine isPathAllowedForRole, the verifyAuth middleware,   *)
(* the getUserRole lookup and the request handlers that call the identity  *)
(* provider, the document store, the storage signer and the mail relay.    *)
(*                                                                         *)
(* Strings are TLA+ strings; startsWith and includes are computed on the   *)
(* characters, as String.prototype.startsWith / includes do.               *)
(*                                                                         *)
(* A request is modelled from the moment Express dispatches it to its      *)
(* route, after the app-level cors and express.json middleware.  Every     *)
(* await of a handler is one step whose outcome (fulfilled or rejected) is *)
(* chosen by the environment.  trace is the history of the external calls  *)
(* made for the request in flight.                                         *)
(***************************************************************************)
EXTENDS Integers, Sequences, FiniteSets, TLC

VARIABLES
    role,        \* PathSpec: the role argument of isPathAllowedForRole
    uid,         \* PathSpec: the uid argument
    objectPath,  \* PathSpec: the objectPath argument
    allowed,     \* PathSpec: "none" before the call, then "true"/"false"/"throw"
    bucketName,  \* process.env.BUCKET_NAME is set
    users,       \* document store: users/{uid} -> "absent", "norole" or the role field
    requestDoc,  \* document store: the collaboration request document
    req,         \* the request in flight
    pc,          \* the position of its handler
    reqUser,     \* req.user.uid once verifyAuth decoded the token, else "none"
    userDoc,     \* the users/{uid} snapshot the handler read, "unread" before
    userRole,    \* the role the handler compares, "none" before
    requestSnap, \* the request document snapshot the handler read
    res,         \* the response status, 0 while there is none
    trace        \* the external calls made for this request, in order

pathVars == <<role, uid, objectPath, allowed>>

storeVars == <<bucketName, users, requestDoc>>

requestVars == <<req, pc, reqUser, userDoc, userRole, requestSnap, res, trace>>

vars == <<pathVars, storeVars, requestVars>>

(***************************************************************************)
(* String helpers                                                          *)
(***************************************************************************)

\* String.prototype.startsWith
StartsWith(s, p) ==
    /\ Len(p) <= Len(s)
    /\ SubSeq(s, 1, Len(p)) = p

\* String.prototype.includes: p occurs at some offset of s
Includes(s, p) ==
    \E i \in 0..(Len(s) - Len(p)) : SubSeq(s, i + 1, i + Len(p)) = p

(***************************************************************************)
(* isPathAllowedForRole (server.js 116-157)                                *)
(***************************************************************************)

\* the own keys of the baseByRole object literal
OwnRoles == {"student", "faculty", "mentor", "startup", "admin"}

\* baseByRole: role -> ordered list of prefixes, built with the caller's uid
baseByRole(u) ==
    [r \in OwnRoles |->
        CASE r = "student" -> <<"users/students/" \o u \o "/", "projects/student-projects/">>
          [] r = "faculty" -> <<"users/faculty/" \o u \o "/", "projects/research-projects/">>
          [] r = "mentor"  -> <<"users/mentors/" \o u \o "/">>
          [] r = "startup" -> <<"users/startups/" \o u \o "/", "projects/startup-projects/">>
          [] r = "admin"   -> <<"users/admins/" \o u \o "/", "projects/", "users/">>]

\* legacy prefixes kept for compatibility
legacy(u) ==
    << "profile-pictures/" \o u \o "/",
       "id-documents/" \o u \o "/",
       "enrollments/" \o u \o "/",
       "project-files/" >>

\* Property names every object literal inherits from Object.prototype.
\* baseByRole[role] finds them on the prototype chain: the value is a function
\* (or Object.prototype itself), which is truthy and not iterable.
InheritedKeys == {"constructor", "toString", "__proto__"}

\* [ ...(baseByRole[role] || []), ...legacy ] throws a TypeError when
\* baseByRole[role] is truthy and not iterable.
SpreadThrows(r) == r \in InheritedKeys

\* allowedPrefixes, when the spread does not throw
allowedPrefixes(r, u) ==
    (IF r \in OwnRoles THEN baseByRole(u)[r] ELSE <<>>) \o legacy(u)

\* allowedPrefixes.some((p) => objectPath.startsWith(p))
hasAllowedPrefix(r, u, path) ==
    \E i \in 1..Len(allowedPrefixes(r, u)) : StartsWith(path, allowedPrefixes(r, u)[i])

\* objectPath.includes(uid)
includesUid(u, path) == Includes(path, u)

\* mutant: the uid containment check is skipped
isPathAllowedForRole_NoUidCheck(r, u, path) ==
    IF SpreadThrows(r) THEN "throw"
    ELSE IF ~hasAllowedPrefix(r, u, path) THEN "false"
    ELSE "true"

\* mutant: the uid containment check is applied to admin as well
isPathAllowedForRole_AdminUidCheck(r, u, path) ==
    IF SpreadThrows(r) THEN "throw"
    ELSE IF ~hasAllowedPrefix(r, u, path) THEN "false"
    ELSE IF ~includesUid(u, path) THEN "false"
    ELSE "true"

\* The function's outcome: "true", "false", or "throw" (TypeError).
isPathAllowedForRole(r, u, path) ==
    IF SpreadThrows(r) THEN "throw"
    ELSE IF ~hasAllowedPrefix(r, u, path) THEN "false"
    ELSE IF r # "admin" /\ ~includesUid(u, path) THEN "false"
    ELSE "true"

(***************************************************************************)
(* The stores and the request in flight                                    *)
(***************************************************************************)

\* uids that hold a valid token and may have a users/{uid} document
Uids == {"u1"}

\* values of a users/{uid} document: no document, a document without a role
\* field, or a document whose role field has this value
UserDocs == {"absent", "norole"} \cup OwnRoles \cup {"guest", "constructor"}

\* the Authorization header: none, a token the identity provider rejects,
\* or a valid token of the uid
Tokens == {"none", "bad"} \cup Uids

AbsentRequest ==
    [exists |-> FALSE, facultyId |-> "", mentorId |-> "", startupId |-> "", status |-> ""]

RequestOwnedBy(field, u) ==
    [exists |-> TRUE,
     facultyId |-> IF field = "facultyId" THEN u ELSE "",
     mentorId  |-> IF field = "mentorId" THEN u ELSE "",
     startupId |-> IF field = "startupId" THEN u ELSE "",
     status |-> "pending"]

\* the request documents the store may hold before the first request
RequestDocs ==
    {AbsentRequest, RequestOwnedBy("facultyId", "u1"), RequestOwnedBy("mentorId", "u1"),
     RequestOwnedBy("startupId", "u1"), RequestOwnedBy("facultyId", "u2")}

Unread ==
    [exists |-> FALSE, facultyId |-> "", mentorId |-> "", startupId |-> "", status |-> "unread"]

\* object paths a signed-url request may carry; "" is a missing objectPath
BodyPaths ==
    {"", "users/students/u1/resume.pdf", "users/students/u2/resume.pdf",
     "projects/research-projects/u1/file.pdf", "project-files/p1/u1/a.png"}

AuthEndpoints ==
    {"signed-url", "signed-url-read", "projects/research", "projects/startup",
     "projects/student", "talent/matches", "requests/update-status", "mentor/stats"}

OpenEndpoints ==
    {"health", "send-feedback", "send-email", "faculty/leaderboard", "mentor/stats/get"}

NoRequest ==
    [ep |-> "none", token |-> "none", objectPath |-> "", contentType |-> FALSE,
     requestId |-> "", collectionName |-> "", status |-> "", studentEmail |-> FALSE,
     fields |-> FALSE, paramUid |-> ""]

\* one external call: the operation, what it was made on, and whether it succeeded
Event(op, key, action, ok) == [op |-> op, key |-> key, action |-> action, ok |-> ok]

Idle ==
    /\ req = NoRequest
    /\ pc = "idle"
    /\ reqUser = "none"
    /\ userDoc = "unread"
    /\ userRole = "none"
    /\ requestSnap = Unread
    /\ res = 0
    /\ trace = <<>>

Init ==
    /\ role = "student" /\ uid = "u1" /\ objectPath = "" /\ allowed = "none"
    /\ bucketName \in BOOLEAN
    /\ users \in [Uids -> UserDocs]
    /\ requestDoc \in RequestDocs
    /\ Idle

\* Express dispatches a request to its route: verifyAuth first where the route
\* names it
Dispatch(r) ==
    /\ pc = "idle"
    /\ req' = r
    /\ pc' = IF r.ep \in AuthEndpoints THEN "verifyAuth" ELSE "handler"
    /\ UNCHANGED <<reqUser, userDoc, userRole, requestSnap, res, trace>>
    /\ UNCHANGED <<pathVars, storeVars>>

ReceiveSignedUrl ==
    \E e \in {"signed-url", "signed-url-read"}, t \in Tokens, p \in BodyPaths, c \in BOOLEAN :
        Dispatch([NoRequest EXCEPT !.ep = e, !.token = t, !.objectPath = p, !.contentType = c])

ReceiveProject ==
    \E e \in {"projects/research", "projects/startup", "projects/student"}, t \in Tokens :
        Dispatch([NoRequest EXCEPT !.ep = e, !.token = t])

ReceiveTalentMatches ==
    \E t \in Tokens : Dispatch([NoRequest EXCEPT !.ep = "talent/matches", !.token = t])

ReceiveMentorStats ==
    \E t \in Tokens : Dispatch([NoRequest EXCEPT !.ep = "mentor/stats", !.token = t])

ReceiveUpdateStatus ==
    \E t \in Tokens, id \in {"", "r1"}, c \in {"", "requests"}, st \in {"", "accepted"},
       m \in BOOLEAN :
        Dispatch([NoRequest EXCEPT !.ep = "requests/update-status", !.token = t,
                                   !.requestId = id, !.collectionName = c, !.status = st,
                                   !.studentEmail = m])

ReceiveSendMail ==
    \E e \in {"send-feedback", "send-email"}, f \in BOOLEAN :
        Dispatch([NoRequest EXCEPT !.ep = e, !.fields = f])

ReceiveOpenRead ==
    \/ Dispatch([NoRequest EXCEPT !.ep = "health"])
    \/ Dispatch([NoRequest EXCEPT !.ep = "faculty/leaderboard"])
    \/ \E u \in {"u1", "u2"} :
          Dispatch([NoRequest EXCEPT !.ep = "mentor/stats/get", !.paramUid = u])

\* the response is sent: the handler is over
Respond(status) ==
    /\ res' = status
    /\ pc' = "done"

\* mutant: a rejected mail send is swallowed
CatchStatus_MailSwallowed(ep, op) == IF op = "mail" THEN 200 ELSE 500

\* the status a handler's catch block answers with when the awaited call op
\* rejects
CatchStatus(ep, op) == 500

(***************************************************************************)
(* verifyAuth (server.js 87-101)                                           *)
(***************************************************************************)

\* mutant: next() is called without a token
VerifyAuthMissingToken_CallsNext ==
    /\ pc = "verifyAuth"
    /\ req.token = "none"
    /\ pc' = "handler"
    /\ UNCHANGED <<req, reqUser, userDoc, userRole, requestSnap, res, trace>>
    /\ UNCHANGED <<pathVars, storeVars>>

\* no "Bearer " token in the Authorization header: 401, next() is not called
VerifyAuthMissingToken ==
    /\ pc = "verifyAuth"
    /\ req.token = "none"
    /\ Respond(401)
    /\ UNCHANGED <<req, reqUser, userDoc, userRole, requestSnap, trace>>
    /\ UNCHANGED <<pathVars, storeVars>>

\* verifyIdToken resolves: req.user = decoded, next()
VerifyAuthOk ==
    /\ pc = "verifyAuth"
    /\ req.token \in Uids
    /\ reqUser' = req.token
    /\ trace' = Append(trace, Event("verifyIdToken", req.token, "", TRUE))
    /\ pc' = "handler"
    /\ UNCHANGED <<req, userDoc, userRole, requestSnap, res>>
    /\ UNCHANGED <<pathVars, storeVars>>

\* verifyIdToken rejects (a bad token, or the identity provider fails): 401
VerifyAuthFail ==
    /\ pc = "verifyAuth"
    /\ req.token # "none"
    /\ trace' = Append(trace, Event("verifyIdToken", req.token, "", FALSE))
    /\ Respond(401)
    /\ UNCHANGED <<req, reqUser, userDoc, userRole, requestSnap>>
    /\ UNCHANGED <<pathVars, storeVars>>

(***************************************************************************)
(* getUserRole (server.js 104-113)                                         *)
(***************************************************************************)

\* mutant: the fallback covers the missing document only
getUserRole_NoFieldFallback(doc) ==
    IF doc = "absent" THEN "student" ELSE IF doc = "norole" THEN "undefined" ELSE doc

\* (role || 'student').toString() on the snapshot
getUserRole(doc) == IF doc \in {"absent", "norole"} THEN "student" ELSE doc

RoleLookupEndpoints == {"signed-url", "signed-url-read", "talent/matches", "mentor/stats"}

\* the handler awaits getUserRole(uid): the signed-url handlers after their
\* synchronous checks, talent matches and mentor stats first thing
AtGetUserRole ==
    \/ pc = "getUserRole"
    \/ pc = "handler" /\ req.ep \in {"talent/matches", "mentor/stats"}

\* the users/{uid} read resolves
GetUserRoleOk ==
    /\ AtGetUserRole
    /\ userDoc' = users[reqUser]
    /\ userRole' = getUserRole(users[reqUser])
    /\ trace' = Append(trace, Event("getUserRole", reqUser, "", TRUE))
    /\ pc' = "roleCheck"
    /\ UNCHANGED <<req, reqUser, requestSnap, res>>
    /\ UNCHANGED <<pathVars, storeVars>>

\* the users/{uid} read rejects: the catch returns 'student'
GetUserRoleFail ==
    /\ AtGetUserRole
    /\ userRole' = "student"
    /\ trace' = Append(trace, Event("getUserRole", reqUser, "", FALSE))
    /\ pc' = "roleCheck"
    /\ UNCHANGED <<req, reqUser, userDoc, requestSnap, res>>
    /\ UNCHANGED <<pathVars, storeVars>>

(***************************************************************************)
(* POST /signed-url and POST /signed-url-read (server.js 162-240)          *)
(***************************************************************************)

SignedUrlEndpoints == {"signed-url", "signed-url-read"}

\* mutant: both handlers sign for write
SignAction_AlwaysWrite(ep) == "write"

\* the action the URL is signed for
SignAction(ep) == IF ep = "signed-url" THEN "write" ELSE "read"

\* the body fields the handler requires
SignedUrlBodyOk(r) ==
    IF r.ep = "signed-url" THEN r.objectPath # "" /\ r.contentType
    ELSE r.objectPath # ""

\* the synchronous checks before the first await
SignedUrlValidate ==
    /\ pc = "handler"
    /\ req.ep \in SignedUrlEndpoints
    /\ IF ~bucketName THEN Respond(500)
       ELSE IF ~SignedUrlBodyOk(req) THEN Respond(400)
       ELSE IF reqUser = "none" THEN Respond(401)
       ELSE pc' = "getUserRole" /\ res' = res
    /\ UNCHANGED <<req, reqUser, userDoc, userRole, requestSnap, trace>>
    /\ UNCHANGED <<pathVars, storeVars>>

\* role-based path enforcement
SignedUrlAuthorize ==
    /\ pc = "roleCheck"
    /\ req.ep \in SignedUrlEndpoints
    /\ LET verdict == isPathAllowedForRole(userRole, reqUser, req.objectPath) IN
          IF verdict = "throw" THEN Respond(CatchStatus(req.ep, "isPathAllowedForRole"))
          ELSE IF verdict = "false" THEN Respond(403)
          ELSE pc' = "sign" /\ res' = res
    /\ UNCHANGED <<req, reqUser, userDoc, userRole, requestSnap, trace>>
    /\ UNCHANGED <<pathVars, storeVars>>

\* getSignedUrl resolves
SignOk ==
    /\ pc = "sign"
    /\ trace' = Append(trace, Event("sign", req.objectPath, SignAction(req.ep), TRUE))
    /\ Respond(200)
    /\ UNCHANGED <<req, reqUser, userDoc, userRole, requestSnap>>
    /\ UNCHANGED <<pathVars, storeVars>>

\* getSignedUrl rejects
SignFail ==
    /\ pc = "sign"
    /\ trace' = Append(trace, Event("sign", req.objectPath, SignAction(req.ep), FALSE))
    /\ Respond(CatchStatus(req.ep, "sign"))
    /\ UNCHANGED <<req, reqUser, userDoc, userRole, requestSnap>>
    /\ UNCHANGED <<pathVars, storeVars>>

(***************************************************************************)
(* GET /api/talent/matches (server.js 410-435)                             *)
(***************************************************************************)

TalentRoleCheck ==
    /\ pc = "roleCheck"
    /\ req.ep = "talent/matches"
    /\ IF userRole # "startup" /\ userRole # "admin" THEN Respond(403)
       ELSE pc' = "query" /\ res' = res
    /\ UNCHANGED <<req, reqUser, userDoc, userRole, requestSnap, trace>>
    /\ UNCHANGED <<pathVars, storeVars>>

\* the users query resolves (talent matches, leaderboard)
QueryOk ==
    /\ \/ pc = "query"
       \/ pc = "handler" /\ req.ep = "faculty/leaderboard"
    /\ trace' = Append(trace, Event("docRead", "users", "query", TRUE))
    /\ Respond(200)
    /\ UNCHANGED <<req, reqUser, userDoc, userRole, requestSnap>>
    /\ UNCHANGED <<pathVars, storeVars>>

QueryFail ==
    /\ \/ pc = "query"
       \/ pc = "handler" /\ req.ep = "faculty/leaderboard"
    /\ trace' = Append(trace, Event("docRead", "users", "query", FALSE))
    /\ Respond(CatchStatus(req.ep, "docRead"))
    /\ UNCHANGED <<req, reqUser, userDoc, userRole, requestSnap>>
    /\ UNCHANGED <<pathVars, storeVars>>

(***************************************************************************)
(* POST /api/mentor/stats (server.js 514-538)                              *)
(***************************************************************************)

MentorStatsRoleCheck ==
    /\ pc = "roleCheck"
    /\ req.ep = "mentor/stats"
    /\ IF userRole # "mentor" /\ userRole # "admin" THEN Respond(403)
       ELSE pc' = "statsUpdate" /\ res' = res
    /\ UNCHANGED <<req, reqUser, userDoc, userRole, requestSnap, trace>>
    /\ UNCHANGED <<pathVars, storeVars>>

\* users/{uid}.update resolves: the document exists; the role field is untouched
MentorStatsUpdateOk ==
    /\ pc = "statsUpdate"
    /\ users[reqUser] # "absent"
    /\ trace' = Append(trace, Event("docWrite", reqUser, "update", TRUE))
    /\ Respond(200)
    /\ UNCHANGED <<req, reqUser, userDoc, userRole, requestSnap>>
    /\ UNCHANGED <<pathVars, storeVars>>

MentorStatsUpdateFail ==
    /\ pc = "statsUpdate"
    /\ trace' = Append(trace, Event("docWrite", reqUser, "update", FALSE))
    /\ Respond(CatchStatus(req.ep, "docWrite"))
    /\ UNCHANGED <<req, reqUser, userDoc, userRole, requestSnap>>
    /\ UNCHANGED <<pathVars, storeVars>>

(***************************************************************************)
(* POST /api/projects/{research,startup,student} (server.js 311-407)       *)
(***************************************************************************)

ProjectEndpoints == {"projects/research", "projects/startup", "projects/student"}

\* the role each endpoint compares userData.role with
RequiredRole(ep) ==
    CASE ep = "projects/research" -> "faculty"
      [] ep = "projects/startup"  -> "startup"
      [] ep = "projects/student"  -> "student"

\* userData.role of a snapshot: undefined without a role field
DocRole(doc) == IF doc = "norole" THEN "undefined" ELSE doc

\* users/{uid} read resolves: 404 without a document, 403 on another role
ProjectReadOk ==
    /\ pc = "handler"
    /\ req.ep \in ProjectEndpoints
    /\ userDoc' = users[reqUser]
    /\ trace' = Append(trace, Event("docRead", reqUser, "get", TRUE))
    /\ IF users[reqUser] = "absent"
       THEN Respond(404) /\ userRole' = userRole
       ELSE /\ userRole' = DocRole(users[reqUser])
            /\ IF DocRole(users[reqUser]) # RequiredRole(req.ep)
                  /\ DocRole(users[reqUser]) # "admin"
               THEN Respond(403)
               ELSE pc' = "projectAdd" /\ res' = res
    /\ UNCHANGED <<req, reqUser, requestSnap>>
    /\ UNCHANGED <<pathVars, storeVars>>

ProjectReadFail ==
    /\ pc = "handler"
    /\ req.ep \in ProjectEndpoints
    /\ trace' = Append(trace, Event("docRead", reqUser, "get", FALSE))
    /\ Respond(CatchStatus(req.ep, "docRead"))
    /\ UNCHANGED <<req, reqUser, userDoc, userRole, requestSnap>>
    /\ UNCHANGED <<pathVars, storeVars>>

\* collection(...).add resolves
ProjectAddOk ==
    /\ pc = "projectAdd"
    /\ trace' = Append(trace, Event("docWrite", req.ep, "add", TRUE))
    /\ Respond(201)
    /\ UNCHANGED <<req, reqUser, userDoc, userRole, requestSnap>>
    /\ UNCHANGED <<pathVars, storeVars>>

ProjectAddFail ==
    /\ pc = "projectAdd"
    /\ trace' = Append(trace, Event("docWrite", req.ep, "add", FALSE))
    /\ Respond(CatchStatus(req.ep, "docWrite"))
    /\ UNCHANGED <<req, reqUser, userDoc, userRole, requestSnap>>
    /\ UNCHANGED <<pathVars, storeVars>>

(***************************************************************************)
(* POST /api/requests/update-status (server.js 461-511)                    *)
(***************************************************************************)

\* mutant: the ownership check is left out
NotOwner_Unchecked(data, u) == FALSE

\* data.facultyId !== uid && data.mentorId !== uid && data.startupId !== uid
NotOwner(data, u) ==
    data.facultyId # u /\ data.mentorId # u /\ data.startupId # u

UpdateStatusValidate ==
    /\ pc = "handler"
    /\ req.ep = "requests/update-status"
    /\ IF req.requestId = "" \/ req.collectionName = "" \/ req.status = ""
       THEN Respond(400)
       ELSE pc' = "requestRead" /\ res' = res
    /\ UNCHANGED <<req, reqUser, userDoc, userRole, requestSnap, trace>>
    /\ UNCHANGED <<pathVars, storeVars>>

\* requestRef.get() resolves: 404 without a document, 403 for a non-owner
UpdateStatusReadOk ==
    /\ pc = "requestRead"
    /\ requestSnap' = requestDoc
    /\ trace' = Append(trace, Event("docRead", req.requestId, "get", TRUE))
    /\ IF ~requestDoc.exists THEN Respond(404)
       ELSE IF NotOwner(requestDoc, reqUser) THEN Respond(403)
       ELSE pc' = "requestUpdate" /\ res' = res
    /\ UNCHANGED <<req, reqUser, userDoc, userRole>>
    /\ UNCHANGED <<pathVars, storeVars>>

UpdateStatusReadFail ==
    /\ pc = "requestRead"
    /\ trace' = Append(trace, Event("docRead", req.requestId, "get", FALSE))
    /\ Respond(CatchStatus(req.ep, "docRead"))
    /\ UNCHANGED <<req, reqUser, userDoc, userRole, requestSnap>>
    /\ UNCHANGED <<pathVars, storeVars>>

\* requestRef.update({status}) resolves: the document exists and takes the
\* status; the mail is sent next when studentEmail was supplied
UpdateStatusWriteOk ==
    /\ pc = "requestUpdate"
    /\ requestDoc.exists
    /\ requestDoc' = [requestDoc EXCEPT !.status = req.status]
    /\ trace' = Append(trace, Event("docWrite", req.requestId, "update", TRUE))
    /\ IF req.studentEmail THEN pc' = "mail" /\ res' = res ELSE Respond(200)
    /\ UNCHANGED <<req, reqUser, userDoc, userRole, requestSnap>>
    /\ UNCHANGED <<pathVars, bucketName, users>>

UpdateStatusWriteFail ==
    /\ pc = "requestUpdate"
    /\ trace' = Append(trace, Event("docWrite", req.requestId, "update", FALSE))
    /\ Respond(CatchStatus(req.ep, "docWrite"))
    /\ UNCHANGED <<req, reqUser, userDoc, userRole, requestSnap>>
    /\ UNCHANGED <<pathVars, storeVars>>

(***************************************************************************)
(* POST /send-feedback, POST /api/send-email (server.js 242-306) and the   *)
(* notification mail of update-status (server.js 486-504)                  *)
(***************************************************************************)

SendMailValidate ==
    /\ pc = "handler"
    /\ req.ep \in {"send-feedback", "send-email"}
    /\ IF ~req.fields THEN Respond(400) ELSE pc' = "mail" /\ res' = res
    /\ UNCHANGED <<req, reqUser, userDoc, userRole, requestSnap, trace>>
    /\ UNCHANGED <<pathVars, storeVars>>

\* transporter.sendMail resolves
MailOk ==
    /\ pc = "mail"
    /\ trace' = Append(trace, Event("mail", req.ep, "send", TRUE))
    /\ Respond(200)
    /\ UNCHANGED <<req, reqUser, userDoc, userRole, requestSnap>>
    /\ UNCHANGED <<pathVars, storeVars>>

\* mutant: a rejected notification mail puts the old status back
MailFail_RollsBack ==
    /\ pc = "mail"
    /\ trace' = Append(trace, Event("mail", req.ep, "send", FALSE))
    /\ Respond(500)
    /\ requestDoc' = IF req.ep = "requests/update-status"
                     THEN [requestDoc EXCEPT !.status = requestSnap.status]
                     ELSE requestDoc
    /\ UNCHANGED <<req, reqUser, userDoc, userRole, requestSnap>>
    /\ UNCHANGED <<pathVars, bucketName, users>>

\* transporter.sendMail rejects
MailFail ==
    /\ pc = "mail"
    /\ trace' = Append(trace, Event("mail", req.ep, "send", FALSE))
    /\ Respond(CatchStatus(req.ep, "mail"))
    /\ UNCHANGED <<req, reqUser, userDoc, userRole, requestSnap>>
    /\ UNCHANGED <<pathVars, storeVars>>

(***************************************************************************)
(* GET /health, GET /api/mentor/stats/:uid (server.js 82-84, 541-560)      *)
(***************************************************************************)

Health ==
    /\ pc = "handler"
    /\ req.ep = "health"
    /\ Respond(200)
    /\ UNCHANGED <<req, reqUser, userDoc, userRole, requestSnap, trace>>
    /\ UNCHANGED <<pathVars, storeVars>>

\* the users/{uid} document of the path parameter, "absent" for a uid without one
StoredUser(u) == IF u \in Uids THEN users[u] ELSE "absent"

MentorStatsGetOk ==
    /\ pc = "handler"
    /\ req.ep = "mentor/stats/get"
    /\ userDoc' = StoredUser(req.paramUid)
    /\ trace' = Append(trace, Event("docRead", req.paramUid, "get", TRUE))
    /\ IF StoredUser(req.paramUid) = "absent" THEN Respond(404)
       ELSE IF StoredUser(req.paramUid) # "mentor" THEN Respond(400)
       ELSE Respond(200)
    /\ UNCHANGED <<req, reqUser, userRole, requestSnap>>
    /\ UNCHANGED <<pathVars, storeVars>>

MentorStatsGetFail ==
    /\ pc = "handler"
    /\ req.ep = "mentor/stats/get"
    /\ trace' = Append(trace, Event("docRead", req.paramUid, "get", FALSE))
    /\ Respond(CatchStatus(req.ep, "docRead"))
    /\ UNCHANGED <<req, reqUser, userDoc, userRole, requestSnap>>
    /\ UNCHANGED <<pathVars, storeVars>>

(***************************************************************************)
(* The environment and the specification                                   *)
(***************************************************************************)

\* the response is out; the next request may be dispatched
Finish ==
    /\ pc = "done"
    /\ req' = NoRequest
    /\ pc' = "idle"
    /\ reqUser' = "none"
    /\ userDoc' = "unread"
    /\ userRole' = "none"
    /\ requestSnap' = Unread
    /\ res' = 0
    /\ trace' = <<>>
    /\ UNCHANGED <<pathVars, storeVars>>

\* another client of the document store writes or deletes users/{uid}
ExternalUserWrite ==
    \E u \in Uids, d \in UserDocs :
        /\ users[u] # d
        /\ users' = [users EXCEPT ![u] = d]
        /\ UNCHANGED <<pathVars, bucketName, requestDoc, requestVars>>

\* another client of the document store creates or deletes the request document
ExternalRequestWrite ==
    \E d \in RequestDocs :
        /\ requestDoc # d
        /\ requestDoc' = d
        /\ UNCHANGED <<pathVars, bucketName, users, requestVars>>

Next ==
    \/ ReceiveSignedUrl \/ ReceiveProject \/ ReceiveTalentMatches \/ ReceiveMentorStats
    \/ ReceiveUpdateStatus \/ ReceiveSendMail \/ ReceiveOpenRead
    \/ VerifyAuthMissingToken \/ VerifyAuthOk \/ VerifyAuthFail
    \/ GetUserRoleOk \/ GetUserRoleFail
    \/ SignedUrlValidate \/ SignedUrlAuthorize \/ SignOk \/ SignFail
    \/ TalentRoleCheck \/ QueryOk \/ QueryFail
    \/ MentorStatsRoleCheck \/ MentorStatsUpdateOk \/ MentorStatsUpdateFail
    \/ ProjectReadOk \/ ProjectReadFail \/ ProjectAddOk \/ ProjectAddFail
    \/ UpdateStatusValidate \/ UpdateStatusReadOk \/ UpdateStatusReadFail
    \/ UpdateStatusWriteOk \/ UpdateStatusWriteFail
    \/ SendMailValidate \/ MailOk \/ MailFail
    \/ Health \/ MentorStatsGetOk \/ MentorStatsGetFail
    \/ Finish \/ ExternalUserWrite \/ ExternalRequestWrite

Spec == Init /\ [][Next]_vars

(***************************************************************************)
(* Inputs of the path engine                                               *)
(***************************************************************************)

MaxSegs == 2

\* the five enumerated roles, a plain unknown role, and an unknown role that
\* names an inherited property
Roles == OwnRoles \cup {"guest", "constructor"}

PathUids == {"u1", "u2", "u12"}

Heads ==
    { "users/students/", "users/faculty/", "users/mentors/", "users/startups/",
      "users/admins/", "users/", "projects/student-projects/",
      "projects/research-projects/", "projects/startup-projects/", "projects/",
      "profile-pictures/", "id-documents/", "enrollments/", "project-files/",
      "project-files", "other/", "" }

Segs == {"u1/", "u2/", "other123_u1/", "x"}

RECURSIVE Tails(_)
Tails(n) ==
    IF n = 0 THEN {""}
    ELSE Tails(n - 1) \cup {t \o s : t \in Tails(n - 1), s \in Segs}

\* P + u + "/x" for every prefix P of every role's candidate set
PrefixProbes ==
    UNION { { allowedPrefixes(r, u)[i] \o u \o "/x" : i \in 1..Len(allowedPrefixes(r, u)) }
            : r \in Roles, u \in PathUids }

\* the scenarios of the specification
Scenarios ==
    { "users/students/u1/resume.pdf",
      "projects/research-projects/u1/file.pdf",
      "users/mentors/u2/file.pdf",
      "users/students/u9/x",
      "projects/student-projects/other123_u1/data" }

Paths == {h \o t : h \in Heads, t \in Tails(MaxSegs)} \cup PrefixProbes \cup Scenarios

PathInit ==
    /\ role \in Roles
    /\ uid \in PathUids
    /\ objectPath \in Paths
    /\ allowed = "none"
    /\ bucketName = TRUE
    /\ users = [u \in Uids |-> "absent"]
    /\ requestDoc = AbsentRequest
    /\ Idle

\* one call of isPathAllowedForRole(role, uid, objectPath)
CallIsPathAllowed ==
    /\ allowed = "none"
    /\ allowed' = isPathAllowedForRole(role, uid, objectPath)
    /\ UNCHANGED <<role, uid, objectPath>>
    /\ UNCHANGED <<storeVars, requestVars>>

PathNext == CallIsPathAllowed

PathSpec == PathInit /\ [][PathNext]_vars

(***************************************************************************)
(* The specification's description of the engine, used to state the claims *)
(***************************************************************************)

\* role-specific prefixes: empty for a role outside the table
RoleSpecificPrefixes(r, u) ==
    CASE r = "student" -> {"users/students/" \o u \o "/", "projects/student-projects/"}
      [] r = "faculty" -> {"users/faculty/" \o u \o "/", "projects/research-projects/"}
      [] r = "mentor"  -> {"users/mentors/" \o u \o "/"}
      [] r = "startup" -> {"users/startups/" \o u \o "/", "projects/startup-projects/"}
      [] r = "admin"   -> {"users/admins/" \o u \o "/", "projects/", "users/"}
      [] OTHER         -> {}

LegacyPrefixes(u) ==
    { "profile-pictures/" \o u \o "/", "id-documents/" \o u \o "/",
      "enrollments/" \o u \o "/", "project-files/" }

StartsWithAny(path, prefixes) == \E P \in prefixes : StartsWith(path, P)

Called == allowed # "none"

BoolStr(b) == IF b THEN "true" ELSE "false"

(***************************************************************************)
(* C1                                                                      *)
(***************************************************************************)

AdminPrefixes(u) == {"users/admins/" \o u \o "/", "projects/", "users/"}

\* C3 as stated: for role admin the call returns true iff the path starts
\* with one of users/admins/{u}/, projects/, users/.
C3_AdminIffAdminPrefix ==
    (Called /\ role = "admin") =>
        (allowed = "true" <=> StartsWithAny(objectPath, AdminPrefixes(uid)))

\* C3 amended: for role admin the call returns true iff the path starts with
\* an admin prefix or a legacy prefix, with or without the uid in the path.
C3_AdminIffAdminOrLegacyPrefix ==
    (Called /\ role = "admin") =>
        (allowed = "true" <=>
            StartsWithAny(objectPath, AdminPrefixes(uid) \cup LegacyPrefixes(uid)))

\* admin allowed on a path under an admin prefix that does not contain the uid
C3_Witness ==
    /\ role = "admin" /\ allowed = "true"
    /\ StartsWith(objectPath, "users/")
    /\ ~Includes(objectPath, uid)

(***************************************************************************)
(* C7                                                                      *)
(***************************************************************************)

\* C7: for every role other than admin, every uid and every prefix P of the
\* role's candidate set (role-specific and legacy), the call on
\* P + uid + "/x" returns true.
C7_PrefixProbeAllowed ==
    (Called /\ role # "admin") =>
        \A P \in RoleSpecificPrefixes(role, uid) \cup LegacyPrefixes(uid) :
            objectPath = P \o uid \o "/x" => allowed = "true"

\* C7 on the roles for which the prefix list is built (no inherited key)
C7_HoldsWherePrefixListIsBuilt ==
    (Called /\ role # "admin" /\ role \notin InheritedKeys) =>
        \A P \in RoleSpecificPrefixes(role, uid) \cup LegacyPrefixes(uid) :
            objectPath = P \o uid \o "/x" => allowed = "true"

(***************************************************************************)
(* C8                                                                      *)
(***************************************************************************)

\* C8: for every role, enumerated or unknown, a path that starts with
\* project-files/ and contains the uid is allowed.
C8_LegacyProjectFilesAllowed ==
    (Called /\ StartsWith(objectPath, "project-files/") /\ Includes(objectPath, uid))
        => allowed = "true"

\* C8 on the roles for which the prefix list is built (no inherited key)
C8_HoldsWherePrefixListIsBuilt ==
    (Called /\ role \notin InheritedKeys
        /\ StartsWith(objectPath, "project-files/") /\ Includes(objectPath, uid))
        => allowed = "true"

(***************************************************************************)
(* C10                                                                     *)
(***************************************************************************)

\* C10: for every (role, uid, objectPath) the call equals
\* (path starts with a prefix of roleSpecific(role, uid) UNION legacy(uid))
\* AND (role = admin OR path contains uid as a substring).
C10_EqualsPrefixAndContainment ==
    Called =>
        allowed = BoolStr(
            /\ StartsWithAny(objectPath,
                   RoleSpecificPrefixes(role, uid) \cup LegacyPrefixes(uid))
            /\ (role = "admin" \/ Includes(objectPath, uid)))

\* C10 on the roles for which the prefix list is built (no inherited key)
C10_HoldsWherePrefixListIsBuilt ==
    (Called /\ role \notin InheritedKeys) =>
        allowed = BoolStr(
            /\ StartsWithAny(objectPath,
                   RoleSpecificPrefixes(role, uid) \cup LegacyPrefixes(uid))
            /\ (role = "admin" \/ Includes(objectPath, uid)))

\* the uid check is substring containment: student u1 is allowed a path whose
\* only occurrence of u1 is inside the segment other123_u1
C10_SubstringAllowed ==
    (Called /\ role = "student" /\ uid = "u1"
        /\ objectPath = "projects/student-projects/other123_u1/data")
        => allowed = "true"

(***************************************************************************)
(* C11                                                                     *)
(***************************************************************************)

\* C11: for a role that is none of student, faculty, mentor, startup, admin
\* the role-specific prefix set is empty: the call returns true exactly when
\* the path starts with a legacy prefix and contains the uid, and no path
\* under users/ or projects/ is ever allowed.
C11_UnknownRoleOnlyLegacy ==
    (Called /\ role \notin OwnRoles) =>
        /\ allowed = "true" <=>
              (StartsWithAny(objectPath, LegacyPrefixes(uid)) /\ Includes(objectPath, uid))
        /\ (StartsWith(objectPath, "users/") \/ StartsWith(objectPath, "projects/"))
              => allowed # "true"

\* C11 on the unknown roles for which the prefix list is built (no inherited key)
C11_HoldsWherePrefixListIsBuilt ==
    (Called /\ role \notin OwnRoles /\ role \notin InheritedKeys) =>
        /\ allowed = "true" <=>
              (StartsWithAny(objectPath, LegacyPrefixes(uid)) /\ Includes(objectPath, uid))
        /\ (StartsWith(objectPath, "users/") \/ StartsWith(objectPath, "projects/"))
              => allowed # "true"

\* no unknown role, inherited key or not, is ever allowed under users/ or projects/
C11_UnknownRoleNeverUnderUsersOrProjects ==
    (Called /\ role \notin OwnRoles
        /\ (StartsWith(objectPath, "users/") \/ StartsWith(objectPath, "projects/")))
        => allowed # "true"

(***************************************************************************)
(* Claims about the request handlers                                       *)
(***************************************************************************)

TraceIdx == 1..Len(trace)

TraceHas(op) == \E i \in TraceIdx : trace[i].op = op

(***************************************************************************)
(* C2                                                                      *)
(***************************************************************************)

\* C2: in POST /signed-url and POST /signed-url-read a URL is requested from
\* storage, and 200 answered, only if isPathAllowedForRole returned true on
\* (the role looked up for the caller's own uid, that uid, the request's
\* objectPath); the URL is signed for exactly that objectPath, with action
\* write for /signed-url and read for /signed-url-read; when the engine
\* returned false the response is 403 and storage was never asked to sign.
C2_SignedUrlOnlyWhenAllowed ==
    req.ep \in SignedUrlEndpoints =>
        /\ \A i \in TraceIdx : trace[i].op = "sign" =>
              /\ reqUser = req.token
              /\ \E j \in 1..(i - 1) :
                    trace[j].op = "getUserRole" /\ trace[j].key = reqUser
              /\ userRole = (IF userDoc \in {"unread", "absent", "norole"}
                             THEN "student" ELSE userDoc)
              /\ isPathAllowedForRole(userRole, reqUser, req.objectPath) = "true"
              /\ trace[i].key = req.objectPath
              /\ trace[i].action = (IF req.ep = "signed-url" THEN "write" ELSE "read")
        /\ res = 200 => \E i \in TraceIdx : trace[i].op = "sign" /\ trace[i].ok
        /\ (pc \in {"sign", "done"} /\ userRole # "none"
              /\ isPathAllowedForRole(userRole, reqUser, req.objectPath) = "false")
              => (res = 403 /\ ~TraceHas("sign"))

\* a read URL was issued to a student for a path of their own
C2_Witness ==
    /\ req.ep = "signed-url-read" /\ res = 200
    /\ userRole = "student"
    /\ \E i \in TraceIdx : trace[i].op = "sign" /\ trace[i].action = "read"

(***************************************************************************)
(* C4                                                                      *)
(***************************************************************************)

\* C4 as stated: every failed external call of a request (token verification,
\* document read or write, URL signing, mail send) is the last call of the
\* request and ends it with 500.
C4_EveryCallFailureEndsWith500 ==
    \A i \in TraceIdx : ~trace[i].ok =>
        (i = Len(trace) /\ pc = "done" /\ res = 500)

\* C4 amended: a failed document read or write issued by a handler, a failed
\* URL signing and a failed mail send end the request with 500; a failed token
\* verification ends it with 401; a failed document read inside getUserRole is
\* absorbed: the role is student and the request goes on to its role check,
\* which alone may end it (403) before the next external call.
C4_CallFailureOutcomes ==
    \A i \in TraceIdx : ~trace[i].ok =>
        CASE trace[i].op = "verifyIdToken" ->
                i = Len(trace) /\ pc = "done" /\ res = 401
          [] trace[i].op = "getUserRole" ->
                /\ userRole = "student"
                /\ i = Len(trace) =>
                      (pc \in {"roleCheck", "sign"} \/ (pc = "done" /\ res = 403))
          [] OTHER ->
                i = Len(trace) /\ pc = "done" /\ res = 500

\* a signed URL was issued although the role lookup's read had failed
C4_Witness ==
    /\ res = 200
    /\ \E i \in TraceIdx : trace[i].op = "getUserRole" /\ ~trace[i].ok

(***************************************************************************)
(* C5                                                                      *)
(***************************************************************************)

RoleCheckedEndpoints == RoleLookupEndpoints \cup ProjectEndpoints

\* C5 as stated: in every operation that checks the caller's role, a caller
\* whose user record is absent or has no role field is treated as student:
\* the role compared is student, and the record's absence or missing role is
\* not what the request is refused for.
C5_MissingRoleTreatedAsStudent ==
    (req.ep \in RoleCheckedEndpoints /\ userDoc \in {"absent", "norole"}) =>
        /\ userRole = "student"
        /\ res # 404
        /\ req.ep = "projects/student" => res # 403

\* C5 amended: the operations that look the role up with getUserRole
\* (signed-URL issuance, talent matches, mentor stats update) treat such a
\* caller as student; the three project-creation endpoints read the record
\* themselves: an absent record ends with 404 and a record without a role
\* field with 403.
C5_MissingRoleByOperation ==
    /\ (req.ep \in RoleLookupEndpoints /\ userDoc \in {"absent", "norole"})
          => userRole = "student"
    /\ (req.ep \in ProjectEndpoints /\ userDoc = "absent")
          => (pc = "done" /\ res = 404 /\ ~TraceHas("docWrite"))
    /\ (req.ep \in ProjectEndpoints /\ userDoc = "norole")
          => (pc = "done" /\ res = 403 /\ ~TraceHas("docWrite"))

\* a caller without a role field was refused the creation of a student project
C5_Witness ==
    /\ req.ep = "projects/student" /\ userDoc = "norole" /\ res = 403

(***************************************************************************)
(* C6                                                                      *)
(***************************************************************************)

IsOwner(data, u) == data.facultyId = u \/ data.mentorId = u \/ data.startupId = u

MissingUpdateFields(r) == r.requestId = "" \/ r.collectionName = "" \/ r.status = ""

\* C6: POST /api/requests/update-status writes the status only after the same
\* request read the document, found it to exist and found the caller's uid as
\* facultyId, mentorId or startupId; a non-owner gets 403, a missing document
\* 404, missing requestId/collectionName/status 400, and none of these three
\* outcomes comes with a document write or a mail.
C6_UpdateOnlyAfterOwnerCheck ==
    req.ep = "requests/update-status" =>
        /\ \A i \in TraceIdx : trace[i].op = "docWrite" =>
              /\ \E j \in 1..(i - 1) : trace[j].op = "docRead" /\ trace[j].ok
              /\ requestSnap.exists
              /\ IsOwner(requestSnap, reqUser)
        /\ res \in {400, 403, 404} => (~TraceHas("docWrite") /\ ~TraceHas("mail"))
        /\ (pc = "done" /\ reqUser # "none" /\ MissingUpdateFields(req)) => res = 400
        /\ (pc = "done" /\ requestSnap # Unread /\ ~requestSnap.exists) => res = 404
        /\ (pc = "done" /\ requestSnap.exists /\ ~IsOwner(requestSnap, reqUser))
              => res = 403

\* the owner named by mentorId had the status written
C6_Witness ==
    /\ req.ep = "requests/update-status" /\ res = 200
    /\ requestSnap.mentorId = reqUser
    /\ requestDoc.status = "accepted"
    /\ TraceHas("docWrite")

(***************************************************************************)
(* C9                                                                      *)
(***************************************************************************)

\* C9: on every endpoint that requires auth, a request dispatched with a
\* missing or invalid bearer token ends with 401 before any other step: it
\* never leaves verifyAuth, gets no other response, and no document read or
\* write, URL signing or mail send is made for it.
C9_BadTokenEndsWith401First ==
    (req.ep \in AuthEndpoints /\ req.token \in {"none", "bad"}) =>
        /\ pc \in {"verifyAuth", "done"}
        /\ res \in {0, 401}
        /\ pc = "done" => res = 401
        /\ \A i \in TraceIdx : trace[i].op = "verifyIdToken"
        /\ reqUser = "none" /\ userDoc = "unread" /\ requestSnap = Unread

\* 401 although the bucket is not configured and the body is empty
C9_Witness ==
    /\ req.ep = "signed-url" /\ req.token = "none" /\ req.objectPath = ""
    /\ ~bucketName
    /\ res = 401

(***************************************************************************)
(* C12                                                                     *)
(***************************************************************************)

\* the request's update() of the document has resolved
StatusWritten == \E i \in TraceIdx : trace[i].op = "docWrite" /\ trace[i].ok

\* a step of the handler, as opposed to a write by another client of the store
HandlerStep == requestVars' # requestVars

\* the step in which update() resolves
WriteStep ==
    /\ Len(trace') = Len(trace) + 1
    /\ trace'[Len(trace')].op = "docWrite"
    /\ trace'[Len(trace')].ok

C12_States ==
    req.ep = "requests/update-status" =>
        /\ \A i \in TraceIdx : trace[i].op = "mail" =>
              \E j \in 1..(i - 1) : trace[j].op = "docWrite" /\ trace[j].ok
        /\ res = 200 =>
              /\ StatusWritten
              /\ req.studentEmail => \E i \in TraceIdx : trace[i].op = "mail" /\ trace[i].ok
        /\ (\E i \in TraceIdx : trace[i].op = "mail" /\ ~trace[i].ok) =>
              (pc = "done" /\ res = 500 /\ StatusWritten)

C12_Steps ==
    req.ep = "requests/update-status" =>
        /\ WriteStep => requestDoc' = [requestDoc EXCEPT !.status = req.status]
        /\ (StatusWritten /\ HandlerStep) => requestDoc' = requestDoc

\* C12: in POST /api/requests/update-status the document write precedes the
\* notification mail and no later step of the handler undoes it: 200 implies
\* that the status was written and, with studentEmail supplied, that the mail
\* send succeeded; a mail send that fails after the write ends the request
\* with 500 and leaves the document with the new status.
C12_WriteBeforeMailNeverUndone == []C12_States /\ [][C12_Steps]_vars

\* 500 after a failed mail, the document holding the new status, not the one read
C12_Witness ==
    /\ req.ep = "requests/update-status" /\ pc = "done" /\ res = 500
    /\ \E i \in TraceIdx : trace[i].op = "mail" /\ ~trace[i].ok
    /\ requestDoc.exists
    /\ requestDoc.status = req.status
    /\ requestDoc.status # requestSnap.status

====
